---- MODULE Spec2Model ----
(***************************************************************************)
(* Model of src/index.js: the RSS extractor (fetchRecentRssItems) and the  *)
(* sanitise-and-persist part of main (sanitisation of the model output,    *)
(* createNotionItem, the sequential insert loop).                          *)
(*                                                                         *)
(* Representation.                                                         *)
(*  - A JavaScript string is a sequence of tokens.  A token is either one  *)
(*    white-space character (" ", "\t") or a maximal run of non-white-     *)
(*    space characters ("Early"); numerals and ISO dates are written one   *)
(*    character per token so that they can be parsed and compared          *)
(*    character by character.                                              *)
(*  - A JavaScript value is a record [t, n, s]: its type tag, a number in  *)
(*    halves (n = 7 is 3.5) and a string.                                  *)
(*  - Time is counted in days, in a calendar of 365-day years; an ISO      *)
(*    timestamp is rendered as <year>-<day of year>, with the sign and six *)
(*    digits that toISOString uses for years outside 0..9999.              *)
(***************************************************************************)
EXTENDS Integers, Sequences, FiniteSets, TLC

VARIABLES
  rssDays,      \* process.env.RSS_DAYS
  pcR,          \* position inside fetchRecentRssItems
  fi,           \* index of the feed being fetched / iterated
  ii,           \* index of the item of that feed examined next
  source,       \* `source` of the feed being iterated
  examined,     \* number of feed items examined so far
  all,          \* the `all` accumulator
  allFrom,      \* history: feed index of each element of `all`
  attempted,    \* history: feed indexes handed to parser.parseURL
  failedFetch,  \* history: feeds whose parseURL threw
  failedProc,   \* history: feeds whose item loop threw
  qualCount,    \* history: per feed, items that passed both filters
  seen,         \* the `seen` set of the dedupe loop
  deduped,      \* the `deduped` accumulator
  result,       \* value returned by fetchRecentRssItems
  pc,           \* position inside main
  merged,       \* [...ideas, ...backups].slice(0, 6)
  mapped,       \* result of merged.map(...)
  cleaned,      \* mapped.filter(x => x.juego)
  dbProps,      \* property names of the database
  ci,           \* index of the insert loop
  calls,        \* properties of every notion.pages.create call made
  persisted,    \* properties of every call that succeeded
  failedAt,     \* index of the insert that threw (0: none)
  exitCode,     \* process exit status (-1: still running)
  err           \* which step threw

rssVars  == <<rssDays, pcR, fi, ii, source, examined, all, allFrom, attempted,
              failedFetch, failedProc, qualCount, seen, deduped, result>>
mainVars == <<pc, merged, mapped, cleaned, dbProps, ci, calls, persisted,
              failedAt, exitCode, err>>
vars     == <<rssVars, mainVars>>

(***************************************************************************)
(* Bounds                                                                  *)
(***************************************************************************)
MaxItems == 3     \* feed items examined in one run, over all feeds
MaxCand  == 2     \* elements of ideas + backups in a multi-element response

(***************************************************************************)
(* Program constants                                                       *)
(***************************************************************************)
MAX_ITEMS_FOR_MODEL == 28
MAX_PER_FEED        == 20
DEFAULT_DAYS        == 7
MAX_MERGED          == 6
SCORE_MIN           == 1
SCORE_MAX           == 10
SCORE_FALLBACK      == 7
ANO_MIN             == 1980
ANO_MAX             == 2100

Scale == 2                     \* numbers are counted in halves
YearLen == 365                 \* days of a year of the model's calendar
NOW == 2026 * YearLen + 307    \* Date.now(), in days

(***************************************************************************)
(* JavaScript values                                                       *)
(***************************************************************************)
Undef    == [t |-> "undefined", n |-> 0, s |-> <<>>]
Null     == [t |-> "null", n |-> 0, s |-> <<>>]
Bool(b)  == [t |-> "boolean", n |-> IF b THEN 1 ELSE 0, s |-> <<>>]
Num(k)   == [t |-> "number", n |-> k, s |-> <<>>]
NaN      == [t |-> "number", n |-> 0, s |-> <<"NaN">>]
Infinity == [t |-> "number", n |-> 0, s |-> <<"Infinity">>]
Str(s)   == [t |-> "string", n |-> 0, s |-> s]
Arr(s)   == [t |-> "array", n |-> 0, s |-> s]        \* array whose join is s
Obj      == [t |-> "object", n |-> 0, s |-> <<"[object", " ", "Object]">>]
BadObj   == [t |-> "object", n |-> 1, s |-> <<>>]    \* {"toString": 1}

IsFinite(v) == v.t = "number" /\ v.s = <<>>

Truthy(v) ==
  CASE v.t \in {"undefined", "null"} -> FALSE
    [] v.t = "boolean" -> v.n = 1
    [] v.t = "number"  -> IF IsFinite(v) THEN v.n # 0 ELSE v = Infinity
    [] v.t = "string"  -> v.s # <<>>
    [] OTHER -> TRUE

\* v.toString() and Number(v) throw a TypeError on an object whose
\* toString is not callable
ToStrThrows(v) == v = BadObj

(***************************************************************************)
(* Strings                                                                 *)
(***************************************************************************)
IsWs(tok) == tok \in {" ", "\t"}

LowerOf(tok) ==
  CASE tok = "New"      -> "new"
    [] tok = "Demo"     -> "demo"
    [] tok = "Other"    -> "other"
    [] tok = "Trailer"  -> "trailer"
    [] tok = "Review"   -> "review"
    [] tok = "Gamer"    -> "gamer"
    [] tok = "PC"       -> "pc"
    [] tok = "HTTPS://X.TEST/A" -> "https://x.test/a"
    [] OTHER -> tok

ToLowerCase(s) == [i \in 1..Len(s) |-> LowerOf(s[i])]

RECURSIVE TrimStart(_)
TrimStart(s) ==
  IF s # <<>> /\ IsWs(Head(s)) THEN TrimStart(Tail(s)) ELSE s

RECURSIVE TrimEnd(_)
TrimEnd(s) ==
  IF s # <<>> /\ IsWs(s[Len(s)]) THEN TrimEnd(SubSeq(s, 1, Len(s) - 1)) ELSE s

Trim(s) == TrimEnd(TrimStart(s))

\* s.replace(/\s+/g, " ")
RECURSIVE CollapseWs(_)
CollapseWs(s) ==
  IF s = <<>> THEN <<>>
  ELSE IF IsWs(Head(s))
       THEN <<" ">> \o CollapseWs(TrimStart(s))
       ELSE <<Head(s)>> \o CollapseWs(Tail(s))

\* text.includes(k), on tokens
Includes(text, k) ==
  \E i \in 1..(Len(text) - Len(k) + 1) : SubSeq(text, i, i + Len(k) - 1) = k

Digit == <<"0", "1", "2", "3", "4", "5", "6", "7", "8", "9">>
IsDigit(tok) == \E d \in 1..10 : Digit[d] = tok
DigitVal(tok) == (CHOOSE d \in 1..10 : Digit[d] = tok) - 1

RECURSIVE Digits(_)
Digits(n) == IF n < 10 THEN <<Digit[n + 1]>>
             ELSE Digits(n \div 10) \o <<Digit[(n % 10) + 1]>>

RECURSIVE Pad(_, _)
Pad(s, w) == IF Len(s) >= w THEN s ELSE Pad(<<"0">> \o s, w)

AllDigits(s) == s # <<>> /\ \A i \in 1..Len(s) : IsDigit(s[i])

RECURSIVE DigitsVal(_)
DigitsVal(s) == IF s = <<>> THEN 0
                ELSE 10 * DigitsVal(SubSeq(s, 1, Len(s) - 1)) + DigitVal(s[Len(s)])

\* code unit of a character, for the characters of a timestamp
CodeOf(tok) == CASE tok = "+" -> 43
                 [] tok = "-" -> 45
                 [] IsDigit(tok) -> 48 + DigitVal(tok)
                 [] OTHER -> 127

\* a < b on strings: lexicographic on code units
RECURSIVE StrLess(_, _)
StrLess(a, b) ==
  IF b = <<>> THEN FALSE
  ELSE IF a = <<>> THEN TRUE
  ELSE IF CodeOf(Head(a)) # CodeOf(Head(b)) THEN CodeOf(Head(a)) < CodeOf(Head(b))
  ELSE StrLess(Tail(a), Tail(b))

(***************************************************************************)
(* Numbers                                                                 *)
(***************************************************************************)
\* String(x) of a number
NumStr(v) ==
  IF ~IsFinite(v) THEN v.s
  ELSE LET a == IF v.n < 0 THEN -v.n ELSE v.n
       IN  (IF v.n < 0 THEN <<"-">> ELSE <<>>)
           \o Digits(a \div Scale)
           \o (IF a % Scale = 0 THEN <<>> ELSE <<".", "5">>)

\* Number(s) of a string: decimal numerals with at most the fraction .5
StrToNum(s) ==
  LET t == Trim(s)
      neg == t # <<>> /\ Head(t) = "-"
      u == IF neg THEN Tail(t) ELSE t
      frac == Len(u) > 2 /\ SubSeq(u, Len(u) - 1, Len(u)) = <<".", "5">>
      w == IF frac THEN SubSeq(u, 1, Len(u) - 2) ELSE u
      m == Scale * DigitsVal(w) + (IF frac THEN 1 ELSE 0)
  IN  IF t = <<>> THEN Num(0)
      ELSE IF u = <<"Infinity">> THEN Infinity
      ELSE IF AllDigits(w) THEN Num(IF neg THEN -m ELSE m)
      ELSE NaN

\* v.toString() of a value that has the method
ToStr(v) ==
  CASE v.t = "string"  -> v.s
    [] v.t = "number"  -> NumStr(v)
    [] v.t = "boolean" -> IF v.n = 1 THEN <<"true">> ELSE <<"false">>
    [] OTHER -> v.s

\* Number(v)
ToNumber(v) ==
  CASE v.t = "undefined" -> NaN
    [] v.t = "null"      -> Num(0)
    [] v.t = "boolean"   -> Num(Scale * v.n)
    [] v.t = "number"    -> v
    [] v.t = "object"    -> NaN
    [] OTHER -> StrToNum(v.s)

(***************************************************************************)
(* Dates                                                                   *)
(***************************************************************************)
NoDate   == [ok |-> FALSE, t |-> 0]
DateAt(t) == [ok |-> TRUE, t |-> t]

\* Date.prototype.toISOString
ToISOString(t) ==
  LET y == t \div YearLen
      d == t % YearLen
      ys == IF y >= 0 /\ y <= 9999 THEN Pad(Digits(y), 4)
            ELSE IF y < 0 THEN <<"-">> \o Pad(Digits(-y), 6)
            ELSE <<"+">> \o Pad(Digits(y), 6)
  IN  ys \o <<"-">> \o Pad(Digits(d), 3)

\* new Date(s) of a string
NewDate(s) ==
  LET n == Len(s)
      iso4 == n = 8 /\ AllDigits(SubSeq(s, 1, 4)) /\ s[5] = "-"
              /\ AllDigits(SubSeq(s, 6, 8))
      iso6 == n = 11 /\ s[1] \in {"+", "-"} /\ AllDigits(SubSeq(s, 2, 7))
              /\ s[8] = "-" /\ AllDigits(SubSeq(s, 9, 11))
      doy == DigitsVal(SubSeq(s, n - 2, n))
  IN  IF iso4 /\ doy < YearLen
        THEN DateAt(DigitsVal(SubSeq(s, 1, 4)) * YearLen + doy)
      ELSE IF iso6 /\ doy < YearLen
        THEN DateAt((IF s[1] = "-" THEN -1 ELSE 1)
                      * DigitsVal(SubSeq(s, 2, 7)) * YearLen + doy)
      ELSE IF n = 1 /\ IsDigit(s[1]) /\ DigitVal(s[1]) >= 1
        \* V8 reads a lone month number as a date of the year 2001
        THEN DateAt(2001 * YearLen + 30 * (DigitVal(s[1]) - 1))
      ELSE NoDate

(***************************************************************************)
(* The RSS extractor                                                       *)
(***************************************************************************)
KEYWORDS == <<
  <<"announce">>, <<"announced">>, <<"announcement">>, <<"reveal">>,
  <<"revealed">>, <<"trailer">>, <<"demo">>, <<"playtest">>,
  <<"early", " ", "access">>, <<"launch">>, <<"release">>, <<"beta">>,
  <<"mmo">>, <<"mmorpg">>, <<"online">>, <<"season">>,
  <<"live", " ", "service">>, <<"presentación">>, <<"anunciado">>,
  <<"anuncio">>, <<"revelado">>, <<"tráiler">>, <<"trailer">>, <<"prueba">>,
  <<"acceso", " ", "anticipado">>, <<"lanzamiento">>, <<"beta">>, <<"online">> >>

includesKeyword(text) ==
  LET t == ToLowerCase(text)
  IN  \E k \in 1..Len(KEYWORDS) : Includes(t, KEYWORDS[k])

\* the first truthy of a list of values, else the last one
RECURSIVE FirstTruthy(_)
FirstTruthy(vs) ==
  IF Len(vs) = 1 \/ Truthy(Head(vs)) THEN Head(vs) ELSE FirstTruthy(Tail(vs))

parseDate(item) ==
  LET d == FirstTruthy(<<item.isoDate, item.pubDate, item.published,
                         item.updated, Null>>)
  IN  IF Truthy(d) /\ d.t = "string" THEN NewDate(d.s) ELSE NoDate

normalizeKey(s) == Trim(CollapseWs(ToLowerCase(s)))

\* const DAYS = Number(RSS_DAYS || 7)
DAYS == ToNumber(IF Truthy(rssDays) THEN rssDays ELSE Num(Scale * DEFAULT_DAYS))

\* dt.getTime() < cutoff, cutoff = Date.now() - DAYS days; a comparison with
\* NaN is false, with -Infinity is false
BeforeCutoff(dt) ==
  IF IsFinite(DAYS) THEN Scale * dt.t < Scale * NOW - DAYS.n ELSE FALSE

\* (v || "").trim() throws when v is truthy and not a string
TrimThrows(v) == Truthy(v) /\ v.t # "string"
OrEmpty(v) == IF Truthy(v) THEN ToStr(v) ELSE <<>>

ItemContent(it) ==
  OrEmpty(FirstTruthy(<<it.contentSnippet, it.content, it.summary, Str(<<>>)>>))

\* the entry pushed for an item that passed the filters (the snippets of the
\* model are shorter than the 280 characters at which truncate cuts)
EntryOf(it, src, dt) ==
  [title   |-> Trim(OrEmpty(it.title)),
   link    |-> Trim(OrEmpty(it.link)),
   source  |-> src,
   date    |-> ToISOString(dt.t),
   snippet |-> CollapseWs(ItemContent(it))]

\* outcome of the body of the item loop for one item
ItemOutcome(it) ==
  LET dt == parseDate(it)
  IN  IF ~dt.ok THEN "skip"
      ELSE IF BeforeCutoff(dt) THEN "skip"
      ELSE IF TrimThrows(it.title) \/ TrimThrows(it.link) THEN "throw"
      ELSE IF ~includesKeyword(Trim(OrEmpty(it.title)) \o <<" ">> \o ItemContent(it))
           THEN "skip"
      ELSE "push"

DedupeKey(x) ==
  IF x.link # <<>>
  THEN <<"L:">> \o normalizeKey(x.link)
  ELSE <<"T:">> \o normalizeKey(x.title) \o <<"|">> \o normalizeKey(x.source)

\* a dedupe loop that compares the raw link or title instead of the key
RECURSIVE DedupeLoopRawKey(_, _, _)
DedupeLoopRawKey(xs, sn, out) ==
  IF xs = <<>> THEN <<sn, out>>
  ELSE LET key == IF Head(xs).link # <<>> THEN <<"L:">> \o Head(xs).link
                  ELSE <<"T:">> \o Head(xs).title \o <<"|">> \o Head(xs).source
       IN  IF key \in sn THEN DedupeLoopRawKey(Tail(xs), sn, out)
           ELSE DedupeLoopRawKey(Tail(xs), sn \cup {key}, Append(out, Head(xs)))

\* the dedupe loop over xs, from the state <<seen, deduped>>
RECURSIVE DedupeLoop(_, _, _)
DedupeLoop(xs, sn, out) ==
  IF xs = <<>> THEN <<sn, out>>
  ELSE LET key == DedupeKey(Head(xs))
       IN  IF key \in sn THEN DedupeLoop(Tail(xs), sn, out)
           ELSE DedupeLoop(Tail(xs), sn \cup {key}, Append(out, Head(xs)))

\* the comparator of the sort: (a, b) => (a.date < b.date ? 1 : -1)
Comparator(a, b) == IF StrLess(a.date, b.date) THEN 1 ELSE -1

\* The comparator never answers 0, so the order of entries with equal dates
\* is whatever the engine's sort makes of it: every arrangement in which no
\* entry stands before one that the comparator puts first is a possible result.
SortResults(xs) ==
  LET n == Len(xs)
      arr(p) == [i \in 1..n |-> xs[p[i]]]
  IN  { arr(p) : p \in { q \in Permutations(1..n) :
            \A i, j \in 1..n : i < j => Comparator(arr(q)[i], arr(q)[j]) # 1 } }

Take(xs, k) == SubSeq(xs, 1, IF Len(xs) < k THEN Len(xs) ELSE k)

(***************************************************************************)
(* Inputs of the extractor                                                 *)
(***************************************************************************)
Feeds == << <<"https://a.test/feed">>, <<"https://b.test/feed">> >>
NumFeeds == Len(Feeds)

FeedTitles == { Undef, Str(<<"PC", " ", "Gamer">>) }
RssDaysPool == { Undef, Str(<<"2">>), Str(<<"soon">>) }

LinkA  == <<"https://x.test/a">>
LinkA2 == <<"HTTPS://X.TEST/A">>
LinkD  == <<"https://x.test/d">>
FarFuture == 10000 * YearLen

Item(iso, pub, upd, title, link, snip, cont) ==
  [isoDate |-> iso, pubDate |-> pub, published |-> Undef, updated |-> upd,
   title |-> title, link |-> link,
   contentSnippet |-> snip, content |-> cont, summary |-> Undef]

IsoStr(t) == Str(ToISOString(t))

ItemRecent  == Item(IsoStr(NOW - 1), Undef, Undef,
                    Str(<<"New", " ", "Demo">>), Str(LinkA), Str(<<"Trailer">>), Undef)
ItemSameLink == Item(IsoStr(NOW), Undef, Undef,
                    Str(<<"Other", " ", "Trailer">>), Str(<<" ">> \o LinkA2), Undef, Undef)
ItemNoLink  == Item(Undef, IsoStr(NOW - 2), Undef,
                    Str(<<"New", " ", "Demo">>), Undef, Undef, Str(<<"beta">>))
ItemNoLink2 == Item(Undef, Undef, IsoStr(NOW - 1),
                    Str(<<" ", "new", " ", "\t", "demo">>), Str(<<" ">>), Undef, Undef)
ItemFuture  == Item(IsoStr(FarFuture), Undef, Undef,
                    Str(<<"early", " ", "access">>), Str(LinkD), Undef, Undef)
ItemOld     == Item(IsoStr(NOW - 8), Undef, Undef,
                    Str(<<"Demo">>), Str(LinkD), Undef, Undef)
ItemOffTopic == Item(IsoStr(NOW - 1), Undef, Undef,
                    Str(<<"Review">>), Str(LinkD), Str(<<"early", " ", " ", "access">>), Undef)
ItemBadDate == Item(Str(<<"garbage">>), IsoStr(NOW - 1), Undef,
                    Str(<<"Demo">>), Str(LinkD), Undef, Undef)
ItemNoDate  == Item(Undef, Undef, Undef, Str(<<"Demo">>), Str(LinkD), Undef, Undef)
ItemBadTitle == Item(IsoStr(NOW - 1), Undef, Undef, Obj, Str(LinkD), Str(<<"demo">>), Undef)

ItemPool == { ItemRecent, ItemSameLink, ItemNoLink, ItemNoLink2, ItemFuture,
              ItemOld, ItemOffTopic, ItemBadDate, ItemNoDate, ItemBadTitle }

(***************************************************************************)
(* fetchRecentRssItems, step by step                                       *)
(***************************************************************************)
NextFeed ==
  /\ fi' = fi + 1
  /\ ii' = 0
  /\ pcR' = IF fi + 1 > NumFeeds THEN "dedupe" ELSE "fetch"

\* a fetch failure that leaves the feed loop instead of going on
ParseURLFailsAborts ==
  /\ pcR = "fetch"
  /\ attempted' = attempted \cup {fi}
  /\ failedFetch' = failedFetch \cup {fi}
  /\ fi' = fi + 1 /\ ii' = 0 /\ pcR' = "dedupe"
  /\ UNCHANGED <<rssDays, source, examined, all, allFrom, failedProc,
                 qualCount, seen, deduped, result, mainVars>>

\* parser.parseURL(feedUrl) throws: caught, logged, next feed
ParseURLFails ==
  /\ pcR = "fetch"
  /\ attempted' = attempted \cup {fi}
  /\ failedFetch' = failedFetch \cup {fi}
  /\ NextFeed
  /\ UNCHANGED <<rssDays, source, examined, all, allFrom, failedProc,
                 qualCount, seen, deduped, result, mainVars>>

\* parser.parseURL(feedUrl) returns a feed
ParseURLReturns ==
  /\ pcR = "fetch"
  /\ \E title \in FeedTitles :
       source' = IF Truthy(title) THEN title.s ELSE Feeds[fi]
  /\ attempted' = attempted \cup {fi}
  /\ pcR' = "items"
  /\ UNCHANGED <<rssDays, fi, ii, examined, all, allFrom, failedFetch,
                 failedProc, qualCount, seen, deduped, result, mainVars>>

\* one pass of the item loop, on the next item of the feed
ProcessItem ==
  /\ pcR = "items"
  /\ ii < MAX_PER_FEED
  /\ examined < MaxItems
  /\ \E it \in ItemPool :
       LET out == ItemOutcome(it)
       IN  /\ examined' = examined + 1
           /\ IF out = "throw"
              THEN /\ failedProc' = failedProc \cup {fi}
                   /\ NextFeed
                   /\ UNCHANGED <<all, allFrom, qualCount>>
              ELSE /\ ii' = ii + 1
                   /\ all' = IF out = "push"
                             THEN Append(all, EntryOf(it, source, parseDate(it)))
                             ELSE all
                   /\ allFrom' = IF out = "push" THEN Append(allFrom, fi) ELSE allFrom
                   /\ qualCount' = IF out = "push"
                                   THEN [qualCount EXCEPT ![fi] = @ + 1]
                                   ELSE qualCount
                   /\ UNCHANGED <<fi, pcR, failedProc>>
  /\ UNCHANGED <<rssDays, source, attempted, failedFetch, seen, deduped,
                 result, mainVars>>

\* the item loop ends: the feed has no more items, or MAX_PER_FEED were seen
EndOfItems ==
  /\ pcR = "items"
  /\ NextFeed
  /\ UNCHANGED <<rssDays, source, examined, all, allFrom, attempted,
                 failedFetch, failedProc, qualCount, seen, deduped, result,
                 mainVars>>

\* the dedupe loop
Dedupe ==
  /\ pcR = "dedupe"
  /\ LET r == DedupeLoop(all, {}, <<>>)
     IN  seen' = r[1] /\ deduped' = r[2]
  /\ pcR' = "sort"
  /\ UNCHANGED <<rssDays, fi, ii, source, examined, all, allFrom, attempted,
                 failedFetch, failedProc, qualCount, result, mainVars>>

\* deduped.sort(...); return deduped.slice(0, MAX_ITEMS_FOR_MODEL)
SortAndReturn ==
  /\ pcR = "sort"
  /\ \E sorted \in SortResults(deduped) :
       /\ deduped' = sorted
       /\ result' = Take(sorted, MAX_ITEMS_FOR_MODEL)
  /\ pcR' = "returned"
  /\ UNCHANGED <<rssDays, fi, ii, source, examined, all, allFrom, attempted,
                 failedFetch, failedProc, qualCount, seen, mainVars>>

MainIdle ==
  /\ pc = "idle" /\ merged = <<>> /\ mapped = <<>> /\ cleaned = <<>>
  /\ dbProps = {} /\ ci = 0 /\ calls = <<>> /\ persisted = <<>>
  /\ failedAt = 0 /\ exitCode = -1 /\ err = "none"

InitRss ==
  /\ rssDays \in RssDaysPool
  /\ pcR = "fetch" /\ fi = 1 /\ ii = 0 /\ source = <<>> /\ examined = 0
  /\ all = <<>> /\ allFrom = <<>>
  /\ attempted = {} /\ failedFetch = {} /\ failedProc = {}
  /\ qualCount = [f \in 1..NumFeeds |-> 0]
  /\ seen = {} /\ deduped = <<>> /\ result = <<>>
  /\ MainIdle

NextRss ==
  \/ ParseURLFails
  \/ ParseURLReturns
  \/ ProcessItem
  \/ EndOfItems
  \/ Dedupe
  \/ SortAndReturn

SpecRss == InitRss /\ [][NextRss]_vars

(***************************************************************************)
(* Claims about the extractor                                              *)
(***************************************************************************)
TimeOf(e) == NewDate(e.date).t
EntriesFrom(f) == { k \in 1..Len(allFrom) : allFrom[k] = f }
FirstSeen == { k \in 1..Len(all) :
                 \A j \in 1..(k - 1) : DedupeKey(all[j]) # DedupeKey(all[k]) }

\* C5: no two returned entries share a DedupeKey, and dedupe keeps exactly the
\* entries of `all` that no earlier entry of `all` shares its key with (an
\* entry is dropped only for an earlier entry with the same key).
Thm_C5 ==
  pcR = "returned" =>
    /\ \A i, j \in 1..Len(result) :
         i # j => DedupeKey(result[i]) # DedupeKey(result[j])
    /\ Len(deduped) = Cardinality(FirstSeen)
    /\ \A k \in FirstSeen : \E i \in 1..Len(deduped) : deduped[i] = all[k]

\* a run that returned two entries after a third was dropped for an earlier
\* entry whose link differs from its own in case only
Wit_C5 ==
  /\ pcR = "returned"
  /\ \E j, k \in 1..Len(all) :
       /\ j < k /\ all[j].link # all[k].link /\ all[j].link # <<>>
       /\ DedupeKey(all[j]) = DedupeKey(all[k])
  /\ Len(all) = 3
  /\ Len(result) = 2

\* C6: every returned entry has its timestamp inside [now - windowDays, now].
CE_C6 ==
  pcR = "returned" =>
    \A i \in 1..Len(result) :
      /\ NewDate(result[i].date).ok
      /\ TimeOf(result[i]) <= NOW
      /\ IsFinite(DAYS) => Scale * TimeOf(result[i]) >= Scale * NOW - DAYS.n

CE_C10 ==
  pcR = "returned" =>
    /\ Len(result) <= MAX_ITEMS_FOR_MODEL
    /\ \A i, j \in 1..Len(result) :
         i < j => TimeOf(result[i]) >= TimeOf(result[j])
    /\ \A i \in 1..Len(result) : \A k \in 1..Len(deduped) :
         (\A j \in 1..Len(result) : result[j] # deduped[k])
           => TimeOf(result[i]) >= TimeOf(deduped[k])

(***************************************************************************)
(* Sanitisation of the model output                                        *)
(***************************************************************************)
allowedTipo == { <<"Historia">>, <<"Short">>, <<"Ambos">> }
allowedPop  == { <<"Muy", " ", "poco", " ", "conocido">>, <<"Nicho">> }
allowedEmo  == { <<"Misterio">>, <<"Tragedia">>, <<"Shock">>, <<"Terror">>,
                 <<"Nostalgia">>, <<"Asombro">> }
allowedEstadoLanzamiento ==
  { <<"Recién", " ", "lanzado">>, <<"Demo", " ", "disponible">>,
    <<"Early", " ", "Access">>, <<"Próximo", " ", "lanzamiento">>,
    <<"Anunciado">> }
allowedTipoJuego ==
  { <<"Live", " ", "Service">>, <<"Otro">>, <<"Sandbox">>, <<"Estrategia">>,
    <<"Simulador">>, <<"RPG">>, <<"Roguelike">>, <<"MMO">>, <<"AA">>,
    <<"Indie">> }

TextFields == { "resumen", "gancho", "por_que_tiene_potencial", "idea_short",
                "titulo_seo", "guion_60s", "guion_8min", "fuente", "link",
                "fecha_anuncio" }
FieldNames == { "juego", "tipo", "popularidad", "emocion", "score_viral",
                "estado_lanzamiento", "tipo_de_juego", "ano" } \cup TextFields

\* clampNumber(n, min, max, fallback); min and max are whole numbers
clampNumber(n, min, max, fallback) ==
  LET x == ToNumber(n)
      lo == Scale * min
      hi == Scale * max
  IN  IF IsFinite(x)
      THEN Num(IF x.n < lo THEN lo ELSE IF x.n > hi THEN hi ELSE x.n)
      ELSE fallback

\* a lookup that returns its argument unchecked
ensureOneOfUnchecked(value, allowed, fallback) == value

\* ensureOneOf(value, allowed, fallback); allowed.includes(value) holds only
\* of a string equal to a member
ensureOneOf(value, allowed, fallback) ==
  IF value.t = "string" /\ value.s \in allowed THEN value ELSE Str(fallback)

\* x.<name> of an element of the merged list; reading a property of null
\* throws (MapThrows), a number has none of these properties
Prop(x, name) == IF x.k = "object" THEN x.f[name] ELSE Undef

\* (v || "").toString().trim()
TrimmedText(v) == Str(Trim(OrEmpty(v)))

\* does the callback of merged.map throw on x ?
MapThrows(x) ==
  \/ x.k = "null"
  \/ \E name \in TextFields \cup {"juego", "estado_lanzamiento", "tipo_de_juego"} :
       ToStrThrows(Prop(x, name))
  \/ ToStrThrows(Prop(x, "score_viral"))
  \/ ToStrThrows(Prop(x, "ano"))

\* the record the callback of merged.map builds from x
CleanOne(x) ==
  [name \in FieldNames |->
     CASE name = "tipo" ->
            ensureOneOf(Prop(x, name), allowedTipo, <<"Ambos">>)
       [] name = "popularidad" ->
            ensureOneOf(Prop(x, name), allowedPop, <<"Nicho">>)
       [] name = "emocion" ->
            ensureOneOf(Prop(x, name), allowedEmo, <<"Asombro">>)
       [] name = "score_viral" ->
            clampNumber(Prop(x, name), SCORE_MIN, SCORE_MAX, Num(Scale * SCORE_FALLBACK))
       [] name = "estado_lanzamiento" ->
            ensureOneOf(TrimmedText(Prop(x, name)), allowedEstadoLanzamiento,
                        <<"Anunciado">>)
       [] name = "tipo_de_juego" ->
            ensureOneOf(TrimmedText(Prop(x, name)), allowedTipoJuego, <<"Otro">>)
       [] name = "ano" ->
            IF Prop(x, name) \in {Null, Undef, Str(<<>>)} THEN Null
            ELSE clampNumber(Prop(x, name), ANO_MIN, ANO_MAX, Null)
       [] OTHER -> TrimmedText(Prop(x, name))]

\* xs.filter(x => x.juego)
RECURSIVE FilterJuego(_)
FilterJuego(xs) ==
  IF xs = <<>> THEN <<>>
  ELSE (IF Truthy(Head(xs)["juego"]) THEN <<Head(xs)>> ELSE <<>>)
       \o FilterJuego(Tail(xs))

(***************************************************************************)
(* createNotionItem                                                        *)
(***************************************************************************)
\* property name -> field of the idea, for the properties set with setIfExists
\* from one field (title, select and rich_text properties)
FieldOfProp ==
  << <<"Juego", "juego">>, <<"Tipo", "tipo">>, <<"Popularidad", "popularidad">>,
     <<"Emoción", "emocion">>, <<"Resumen", "resumen">>, <<"Gancho", "gancho">>,
     <<"Por qué tiene potencial", "por_que_tiene_potencial">>,
     <<"Idea Short", "idea_short">>, <<"Título SEO", "titulo_seo">>,
     <<"Guion 60s", "guion_60s">>, <<"Guion 8 min", "guion_8min">>,
     <<"Fuente", "fuente">>, <<"Tipo de juego", "tipo_de_juego">>,
     <<"Estado lanzamiento", "estado_lanzamiento">> >>
PlainProps == { FieldOfProp[i][1] : i \in 1..Len(FieldOfProp) }
FieldFor(prop) ==
  FieldOfProp[CHOOSE i \in 1..Len(FieldOfProp) : FieldOfProp[i][1] = prop][2]

AllProps == PlainProps \cup {"Score viral", "Fecha", "Link", "Fecha anuncio", "Año"}

\* setDateIfValid: is the property set for this value ?
DateIsSet(isoLike) ==
  LET v == Trim(ToStr(isoLike))
  IN  v # <<>> /\ NewDate(v).ok

\* the properties handed to notion.pages.create: the value of a title, select
\* or rich_text property is its text, of a number property its number, of a
\* date property its start, of a url property its url.  (The texts of the
\* model are shorter than the lengths at which truncate cuts.)
PropValue(prop, idea) ==
  CASE prop = "Score viral" ->
         clampNumber(idea["score_viral"], SCORE_MIN, SCORE_MAX, Num(Scale * SCORE_FALLBACK))
    [] prop = "Fecha" -> Str(ToISOString(NOW))
    [] prop = "Link" -> IF Truthy(idea["link"]) THEN idea["link"] ELSE Null
    [] prop = "Fecha anuncio" ->
         Str(ToISOString(NewDate(Trim(ToStr(idea["fecha_anuncio"]))).t))
    [] prop = "Año" -> idea["ano"]
    [] OTHER -> idea[FieldFor(prop)]

\* createNotionItem that sets the announcement date for any value
createNotionItemAnyDate(idea, db) ==
  [prop \in AllProps \cap db |->
     IF prop = "Fecha anuncio" /\ ~DateIsSet(idea["fecha_anuncio"])
     THEN Str(<<>>) ELSE PropValue(prop, idea)]

createNotionItem(idea, db) ==
  [prop \in { q \in AllProps \cap db :
                q = "Fecha anuncio" => DateIsSet(idea["fecha_anuncio"]) }
     |-> PropValue(prop, idea)]

(***************************************************************************)
(* Inputs of main: the decoded model output, the database properties       *)
(***************************************************************************)
BaseFields ==
  [name \in FieldNames |->
     CASE name = "juego" -> Str(<<"Hollow", " ", "Depths">>)
       [] name = "tipo" -> Str(<<"Short">>)
       [] name = "popularidad" -> Str(<<"Muy", " ", "poco", " ", "conocido">>)
       [] name = "emocion" -> Str(<<"Misterio">>)
       [] name = "score_viral" -> Num(Scale * 8)
       [] name = "estado_lanzamiento" -> Str(<<"Early", " ", "Access">>)
       [] name = "tipo_de_juego" -> Str(<<"RPG">>)
       [] name = "ano" -> Num(Scale * 2026)
       [] name = "link" -> Str(LinkA)
       [] name = "fecha_anuncio" -> IsoStr(NOW - 1)
       [] OTHER -> Str(<<"texto">>)]

ObjEl(fields) == [k |-> "object", f |-> fields]
NullEl == [k |-> "null", f |-> [name \in FieldNames |-> Undef]]
PrimEl == [k |-> "primitive", f |-> [name \in FieldNames |-> Undef]]
With(fields, name, v) == [fields EXCEPT ![name] = v]

AnyValues ==
  { Undef, Null, Bool(TRUE), Num(0), Num(7), Num(Scale * 12), Infinity,
    Str(<<>>), Str(<<" ">>), Str(<<"Bogus">>), Arr(<<"RPG">>), Obj, BadObj }

Strs(S) == { Str(s) : s \in S }

RawPool(name) ==
  CASE name = "tipo" -> AnyValues \cup Strs(allowedTipo)
                          \cup { Str(<<" ", "Short">>), Str(<<"short">>), Arr(<<"Short">>) }
    [] name = "popularidad" -> AnyValues \cup Strs(allowedPop)
                          \cup { Str(<<"Nicho", " ">>) }
    [] name = "emocion" -> AnyValues \cup Strs(allowedEmo)
                          \cup { Str(<<"\t", "Shock">>) }
    [] name = "estado_lanzamiento" -> AnyValues \cup Strs(allowedEstadoLanzamiento)
                          \cup { Str(<<" ", "Demo", " ", "disponible", "\t">>),
                                 Str(<<"Demo", " ", " ", "disponible">>),
                                 Arr(<<"Anunciado">>) }
    [] name = "tipo_de_juego" -> AnyValues \cup Strs(allowedTipoJuego)
                          \cup { Str(<<" ", "MMO", " ">>), Str(<<"rpg">>) }
    [] name = "score_viral" -> AnyValues
                          \cup { Num(Scale * 3), Num(Scale * 10), Num(Scale * 10 + 1),
                                 Num(-4), Str(<<"8">>), Str(<<" ", "8", ".", "5">>),
                                 Str(<<"high">>), Str(<<"Infinity">>) }
    [] name = "ano" -> AnyValues
                          \cup { Num(Scale * 1975), Num(Scale * 2200),
                                 Num(Scale * 2025 + 1), Str(<<"2", "0", "2", "5">>) }
    [] name = "fecha_anuncio" -> AnyValues
                          \cup { Str(<<" ">> \o ToISOString(NOW - 3)),
                                 Str(<<"mañana">>), Str(<<"5">>), Num(Scale * 5) }
    [] name = "juego" -> AnyValues \cup { Str(<<" ", "Star", " ", "Loom", " ">>) }
    [] OTHER -> { Undef, Str(<<" ", "texto">>), Num(7), BadObj }

\* elements that differ from a well-formed candidate in one field, and the
\* elements that are no object
WideElements ==
  UNION { { ObjEl(With(BaseFields, name, v)) : v \in RawPool(name) } :
          name \in FieldNames }
    \cup { NullEl, PrimEl }

\* a second well-formed candidate, and candidates wrong in several fields
OtherFields ==
  [BaseFields EXCEPT !["juego"] = Str(<<" ", "Star", " ", "Loom">>),
                     !["fecha_anuncio"] = Str(<<" ">>),
                     !["score_viral"] = Num(7),
                     !["tipo_de_juego"] = Str(<<" ", "MMO", " ">>),
                     !["tipo"] = Str(<<" ", "Short">>)]
NarrowElements ==
  { ObjEl(BaseFields), ObjEl(OtherFields),
    ObjEl(With(BaseFields, "juego", Str(<<" ", "\t">>))),
    ObjEl(With(OtherFields, "juego", Undef)),
    NullEl, PrimEl }

SeqsUpTo(S, n) == UNION { [1..k -> S] : k \in 0..n }

\* the decoded output: ideas and backups, each an array or something else
Response(ideasIsArray, ideas, backupsIsArray, backups) ==
  [ideas   |-> [arr |-> ideasIsArray, els |-> ideas],
   backups |-> [arr |-> backupsIsArray, els |-> backups]]

Responses ==
  { Response(TRUE, <<e>>, b, <<>>) : e \in WideElements, b \in BOOLEAN }
    \cup UNION { { Response(TRUE, i, TRUE, b) :
                      b \in SeqsUpTo(NarrowElements, MaxCand - Len(i)) } :
                    i \in SeqsUpTo(NarrowElements, MaxCand) }
    \cup { Response(FALSE, <<>>, TRUE, b) : b \in SeqsUpTo(NarrowElements, 1) }

DbPropsPool ==
  { AllProps,
    AllProps \ {"Fecha anuncio", "Tipo", "Score viral"},
    {"Juego", "Fecha anuncio", "Score viral", "No usada"},
    {} }

(***************************************************************************)
(* main, step by step                                                      *)
(***************************************************************************)
Exit(code, why) == pc' = "exit" /\ exitCode' = code /\ err' = why

\* fetchRecentRssItems returned: without items main returns at once
Fetched ==
  /\ pc = "start"
  /\ \E itemsEmpty \in BOOLEAN :
       IF itemsEmpty THEN pc' = "noop" /\ exitCode' = 0
                     ELSE pc' = "model" /\ exitCode' = exitCode
  /\ UNCHANGED <<rssVars, merged, mapped, cleaned, dbProps, ci, calls,
                 persisted, failedAt, err>>

\* openai.chat.completions.create rejects
ModelCallFails ==
  /\ pc = "model"
  /\ Exit(1, "model")
  /\ UNCHANGED <<rssVars, merged, mapped, cleaned, dbProps, ci, calls,
                 persisted, failedAt>>

\* safeJsonParse throws
DecodeFails ==
  /\ pc = "model"
  /\ Exit(1, "decode")
  /\ UNCHANGED <<rssVars, merged, mapped, cleaned, dbProps, ci, calls,
                 persisted, failedAt>>

\* the output decodes; ideas and backups are merged; an empty merge exits
Decoded ==
  /\ pc = "model"
  /\ \E data \in Responses :
       LET ideas   == IF data.ideas.arr THEN data.ideas.els ELSE <<>>
           backups == IF data.backups.arr THEN data.backups.els ELSE <<>>
       IN  merged' = Take(ideas \o backups, MAX_MERGED)
  /\ IF merged' = <<>>
     THEN Exit(1, "empty")
     ELSE pc' = "sanitize" /\ UNCHANGED <<exitCode, err>>
  /\ UNCHANGED <<rssVars, mapped, cleaned, dbProps, ci, calls, persisted,
                 failedAt>>

\* merged.map(...).filter(...): the callback throws on some element, or
\* every element is mapped and the list filtered
Sanitize ==
  /\ pc = "sanitize"
  /\ IF \E i \in 1..Len(merged) : MapThrows(merged[i])
     THEN /\ Exit(1, "sanitize")
          /\ UNCHANGED <<mapped, cleaned>>
     ELSE /\ mapped' = [i \in 1..Len(merged) |-> CleanOne(merged[i])]
          /\ cleaned' = FilterJuego(mapped')
          /\ pc' = "schema"
          /\ UNCHANGED <<exitCode, err>>
  /\ UNCHANGED <<rssVars, merged, dbProps, ci, calls, persisted, failedAt>>

\* getDatabasePropertyNames rejects
SchemaFails ==
  /\ pc = "schema"
  /\ Exit(1, "schema")
  /\ UNCHANGED <<rssVars, merged, mapped, cleaned, dbProps, ci, calls,
                 persisted, failedAt>>

\* getDatabasePropertyNames resolves
SchemaRead ==
  /\ pc = "schema"
  /\ dbProps' \in DbPropsPool
  /\ pc' = "insert"
  /\ ci' = 1
  /\ UNCHANGED <<rssVars, merged, mapped, cleaned, calls, persisted,
                 failedAt, exitCode, err>>

\* an insert that fails and is passed over
InsertFailsIgnored ==
  /\ pc = "insert"
  /\ ci <= Len(cleaned)
  /\ calls' = Append(calls, createNotionItem(cleaned[ci], dbProps))
  /\ failedAt' = ci
  /\ ci' = ci + 1
  /\ UNCHANGED <<rssVars, pc, merged, mapped, cleaned, dbProps, persisted,
                 exitCode, err>>

\* await createNotionItem(idea, dbProps) rejects: main rejects, exit(1)
InsertFails ==
  /\ pc = "insert"
  /\ ci <= Len(cleaned)
  /\ calls' = Append(calls, createNotionItem(cleaned[ci], dbProps))
  /\ failedAt' = ci
  /\ Exit(1, "insert")
  /\ UNCHANGED <<rssVars, merged, mapped, cleaned, dbProps, ci, persisted>>

\* await createNotionItem(idea, dbProps) resolves
InsertOk ==
  /\ pc = "insert"
  /\ ci <= Len(cleaned)
  /\ calls' = Append(calls, createNotionItem(cleaned[ci], dbProps))
  /\ persisted' = Append(persisted, createNotionItem(cleaned[ci], dbProps))
  /\ ci' = ci + 1
  /\ UNCHANGED <<rssVars, pc, merged, mapped, cleaned, dbProps, failedAt,
                 exitCode, err>>

\* the insert loop ends: "Hecho."
Done ==
  /\ pc = "insert"
  /\ ci > Len(cleaned)
  /\ pc' = "done"
  /\ exitCode' = 0
  /\ UNCHANGED <<rssVars, merged, mapped, cleaned, dbProps, ci, calls,
                 persisted, failedAt, err>>

RssIdle ==
  /\ rssDays = Undef
  /\ pcR = "idle" /\ fi = 1 /\ ii = 0 /\ source = <<>> /\ examined = 0
  /\ all = <<>> /\ allFrom = <<>>
  /\ attempted = {} /\ failedFetch = {} /\ failedProc = {}
  /\ qualCount = [f \in 1..NumFeeds |-> 0]
  /\ seen = {} /\ deduped = <<>> /\ result = <<>>

InitMain ==
  /\ RssIdle
  /\ pc = "start" /\ merged = <<>> /\ mapped = <<>> /\ cleaned = <<>>
  /\ dbProps = {} /\ ci = 0 /\ calls = <<>> /\ persisted = <<>>
  /\ failedAt = 0 /\ exitCode = -1 /\ err = "none"

NextMain ==
  \/ Fetched
  \/ ModelCallFails
  \/ DecodeFails
  \/ Decoded
  \/ Sanitize
  \/ SchemaFails
  \/ SchemaRead
  \/ InsertFails
  \/ InsertOk
  \/ Done

SpecMain == InitMain /\ [][NextMain]_vars

(***************************************************************************)
(* Claims about main                                                       *)
(***************************************************************************)
\* indexes of the elements of `mapped` that pass the filter, from i on
RECURSIVE KeptFrom(_)
KeptFrom(i) ==
  IF i > Len(mapped) THEN <<>>
  ELSE (IF Truthy(mapped[i]["juego"]) THEN <<i>> ELSE <<>>) \o KeptFrom(i + 1)

\* the element of the model output that the j-th insert call was made for
RawOfCall(j) == merged[KeptFrom(1)[j]]

Enums ==
  { [field |-> "tipo", prop |-> "Tipo", allowed |-> allowedTipo,
     fallback |-> <<"Ambos">>, trimmed |-> FALSE],
    [field |-> "popularidad", prop |-> "Popularidad", allowed |-> allowedPop,
     fallback |-> <<"Nicho">>, trimmed |-> FALSE],
    [field |-> "emocion", prop |-> "Emoción", allowed |-> allowedEmo,
     fallback |-> <<"Asombro">>, trimmed |-> FALSE],
    [field |-> "estado_lanzamiento", prop |-> "Estado lanzamiento",
     allowed |-> allowedEstadoLanzamiento, fallback |-> <<"Anunciado">>,
     trimmed |-> TRUE],
    [field |-> "tipo_de_juego", prop |-> "Tipo de juego",
     allowed |-> allowedTipoJuego, fallback |-> <<"Otro">>, trimmed |-> TRUE] }

IsMember(v, allowed) == v.t = "string" /\ v.s \in allowed

\* the value v stored for raw value raw, as the claim has it
AsClaimed(v, raw, e) ==
  /\ IsMember(v, e.allowed)
  /\ ~IsMember(raw, e.allowed) => v.s = e.fallback

\* the value v stored for raw value raw, with the conversion to a trimmed
\* string that estado_lanzamiento and tipo_de_juego go through
AsAmended(v, raw, e) ==
  LET given == IF e.trimmed
               THEN Str(Trim(IF Truthy(raw) THEN ToStr(raw) ELSE <<>>))
               ELSE raw
  IN  /\ IsMember(v, e.allowed)
      /\ IsMember(given, e.allowed) => v = given
      /\ ~IsMember(given, e.allowed) => v.s = e.fallback

\* C1, as stated: every record handed to the insert call carries a member of
\* the vocabulary in each enumerated field, and the fallback whenever the raw
\* value is not a member.
CE_C1 ==
  \A j \in 1..Len(calls) : \A e \in Enums :
    /\ AsClaimed(cleaned[j][e.field], Prop(RawOfCall(j), e.field), e)
    /\ e.prop \in DOMAIN calls[j] =>
         AsClaimed(calls[j][e.prop], Prop(RawOfCall(j), e.field), e)

\* C1, amended: every record handed to the insert call carries a member of
\* the vocabulary in each enumerated field; tipo, popularidad and emocion
\* carry the raw value when it is a member and the fallback otherwise;
\* estado_lanzamiento and tipo_de_juego carry the raw value converted to a
\* string and trimmed when that is a member, and the fallback otherwise.
Thm_C1 ==
  \A j \in 1..Len(calls) : \A e \in Enums :
    /\ AsAmended(cleaned[j][e.field], Prop(RawOfCall(j), e.field), e)
    /\ e.prop \in DOMAIN calls[j] =>
         AsAmended(calls[j][e.prop], Prop(RawOfCall(j), e.field), e)

\* an insert call for a candidate whose raw tipo_de_juego is a padded member
\* and whose raw tipo is no member
Wit_C1 ==
  \E j \in 1..Len(calls) :
    /\ Prop(RawOfCall(j), "tipo_de_juego") = Str(<<" ", "MMO", " ">>)
    /\ Prop(RawOfCall(j), "tipo") = Str(<<" ", "Short">>)
    /\ "Tipo de juego" \in DOMAIN calls[j] /\ "Tipo" \in DOMAIN calls[j]
    /\ calls[j]["Tipo de juego"] = Str(<<"MMO">>)
    /\ calls[j]["Tipo"] = Str(<<"Ambos">>)

\* is the raw announcement date blank, absent or unparseable ?
NoUsableDate(raw) ==
  \/ ~Truthy(raw)
  \/ ~NewDate(Trim(ToStr(raw))).ok

\* C2: the properties of an insert call either lack "Fecha anuncio" or carry
\* a start that parses to a timestamp; a blank, absent or unparseable
\* fecha_anuncio never yields the property.
Thm_C2 ==
  \A j \in 1..Len(calls) :
    /\ "Fecha anuncio" \in DOMAIN calls[j] =>
         /\ calls[j]["Fecha anuncio"].t = "string"
         /\ calls[j]["Fecha anuncio"].s # <<>>
         /\ NewDate(calls[j]["Fecha anuncio"].s).ok
    /\ NoUsableDate(Prop(RawOfCall(j), "fecha_anuncio")) =>
         "Fecha anuncio" \notin DOMAIN calls[j]

\* two insert calls into a database that has the property: one with a date,
\* one for a white-space-only fecha_anuncio without the property
Wit_C2 ==
  /\ "Fecha anuncio" \in dbProps
  /\ \E j \in 1..Len(calls) : "Fecha anuncio" \in DOMAIN calls[j]
  /\ \E j \in 1..Len(calls) :
       /\ Prop(RawOfCall(j), "fecha_anuncio") = Str(<<" ">>)
       /\ "Fecha anuncio" \notin DOMAIN calls[j]

Decodes == pc \in {"sanitize", "schema", "insert", "done"}
             \/ (pc = "exit" /\ err \notin {"model", "decode"})

\* is every enumerated field of the sanitised record in its vocabulary, the
\* score in its range, the year absent or in its range ?
WellFormed(r) ==
  /\ \A e \in Enums : IsMember(r[e.field], e.allowed)
  /\ IsFinite(r["score_viral"])
  /\ r["score_viral"].n >= Scale * SCORE_MIN
  /\ r["score_viral"].n <= Scale * SCORE_MAX
  /\ r["ano"] = Null \/ (IsFinite(r["ano"]) /\ r["ano"].n >= Scale * ANO_MIN
                                             /\ r["ano"].n <= Scale * ANO_MAX)

\* C3: sanitisation never raises and never aborts the run: whatever the
\* elements of ideas and backups are, each yields a well-formed record or a
\* rejection.
CE_C3 ==
  /\ err # "sanitize"
  /\ pc \in {"schema", "insert", "done"} =>
       /\ Len(mapped) = Len(merged)
       /\ \A i \in 1..Len(mapped) :
            WellFormed(mapped[i]) \/ ~Truthy(mapped[i]["juego"])

\* has the element no juego, an empty one or a white-space-only one ?
BlankJuego(x) ==
  LET v == Prop(x, "juego")
  IN  x.k = "object" /\ (v = Undef \/ (v.t = "string" /\ Trim(v.s) = <<>>))

\* C4: when the output decodes and no candidate survives sanitisation, the
\* run fails with a non-zero exit status, makes no insert call and never
\* reaches DONE.
CE_C4 ==
  (Decodes /\ \A i \in 1..Len(merged) : BlankJuego(merged[i])) =>
    /\ pc # "done"
    /\ calls = <<>>
    /\ pc = "exit" => exitCode # 0
    /\ exitCode \in {-1, 1}

\* C8: the persisted records are, in order, the records of a prefix of the
\* sanitised list, each insert is over before the next is made, and once the
\* insert of record k has failed exactly the k - 1 records before it are
\* persisted and the run has ended with exit status 1.
Thm_C8 ==
  /\ Len(persisted) <= Len(cleaned)
  /\ \A i \in 1..Len(persisted) :
       persisted[i] = createNotionItem(cleaned[i], dbProps)
  /\ pc = "insert" => Len(persisted) = ci - 1 /\ calls = persisted
  /\ failedAt # 0 =>
       /\ Len(persisted) = failedAt - 1
       /\ Len(calls) = failedAt
       /\ pc = "exit" /\ exitCode = 1
  /\ pc = "done" => failedAt = 0 /\ Len(persisted) = Len(cleaned)

\* the insert of the second record failed after the first was persisted
Wit_C8 ==
  /\ failedAt = 2 /\ Len(persisted) = 1 /\ pc = "exit"
  /\ cleaned[1] # cleaned[2]

\* C9: the score written in a persisted record is an integer from 1 to 10,
\* and the fallback 7 when the raw value does not coerce to a finite number.
CE_C9 ==
  \A j \in 1..Len(calls) :
    "Score viral" \in DOMAIN calls[j] =>
      LET v == calls[j]["Score viral"]
      IN  /\ IsFinite(v)
          /\ v.n % Scale = 0
          /\ v.n >= Scale * SCORE_MIN /\ v.n <= Scale * SCORE_MAX
          /\ ~IsFinite(ToNumber(Prop(RawOfCall(j), "score_viral")))
               => v = Num(Scale * SCORE_FALLBACK)

====
